---- MODULE Spec2Model ----
(***************************************************************************)
(* semtype: infers the next semantic version of a Go module from the diff  *)
(* of its exported API against the snapshot persisted by the previous run. *)
(* Model of src/main.go.                                                   *)
(*                                                                         *)
(* Strings the program only compares (normalized signatures, names) are    *)
(* TLA+ strings.  Version strings, which the program scans character by    *)
(* character, are sequences of one-character strings.                      *)
(***************************************************************************)
EXTENDS Integers, Sequences, FiniteSets

VARIABLES
    src,              \* the source directory: file name -> declarations
    lastSrc,          \* history: <<the source the state file was built from>>
    fromSrc,          \* history: lastSrc as the current process found it
    stateFile,        \* the state location: Absent, Corrupt or Stored(State)
    pc,               \* position of the current process in run()
    previousState,    \* run: previousState
    currentExported,  \* run: currentExported
    newVersion,       \* run: newVersion
    stdout,           \* lines the current process printed to standard output
    stderr,           \* the records the process wrote to standard error
    exitCode,         \* exit status of the current process, -1 before
    arg,              \* input of a function applied on its own
    ret               \* its result

vars == <<src, lastSrc, fromSrc, stateFile, pc, previousState, currentExported,
          newVersion, stdout, stderr, exitCode, arg, ret>>

None == "none"

(***************************************************************************)
(* Bounds                                                                  *)
(***************************************************************************)
\* largest value of a version component a run may start from
MaxVer == 2
\* longest version string handed to parseVersion on its own
MaxLen == 6

(***************************************************************************)
(* Go's int on a 64-bit build: the integers -2^63 .. 2^63 - 1.  They do    *)
(* not fit the integers of the checker, so a value is held as its sign and *)
(* its decimal digits (most significant first, no leading zero, zero is    *)
(* not negative).                                                          *)
(***************************************************************************)
Int64(neg, mag) == [neg |-> neg, mag |-> mag]

RECURSIVE NatDigits(_)
NatDigits(n) ==
    IF n < 10 THEN <<n>> ELSE NatDigits(n \div 10) \o <<n % 10>>

\* the int whose value is the small integer n
IntOf(n) == IF n < 0 THEN Int64(TRUE, NatDigits(0 - n)) ELSE Int64(FALSE, NatDigits(n))

\* math.MaxInt64 = 9223372036854775807 and math.MinInt64 = -9223372036854775808
MaxInt == Int64(FALSE, <<9, 2, 2, 3, 3, 7, 2, 0, 3, 6, 8, 5, 4, 7, 7, 5, 8, 0, 7>>)
MinInt == Int64(TRUE, <<9, 2, 2, 3, 3, 7, 2, 0, 3, 6, 8, 5, 4, 7, 7, 5, 8, 0, 8>>)

\* a < b for digit sequences of one length
RECURSIVE DigitsLess(_, _)
DigitsLess(a, b) ==
    /\ a # <<>>
    /\ \/ a[1] < b[1]
       \/ a[1] = b[1] /\ DigitsLess(Tail(a), Tail(b))

\* a < b for magnitudes
MagLess(a, b) == Len(a) < Len(b) \/ (Len(a) = Len(b) /\ DigitsLess(a, b))

\* x < y on int
IntLess(x, y) ==
    IF x.neg /\ ~y.neg THEN TRUE
    ELSE IF ~x.neg /\ y.neg THEN FALSE
    ELSE IF x.neg THEN MagLess(y.mag, x.mag)
    ELSE MagLess(x.mag, y.mag)

\* a + 1 for a magnitude
RECURSIVE MagInc(_)
MagInc(a) ==
    IF a = <<>> THEN <<1>>
    ELSE IF a[Len(a)] < 9 THEN SubSeq(a, 1, Len(a) - 1) \o <<a[Len(a)] + 1>>
    ELSE MagInc(SubSeq(a, 1, Len(a) - 1)) \o <<0>>

\* a - 1 for a magnitude a >= 1, possibly with a leading zero
RECURSIVE MagDecRaw(_)
MagDecRaw(a) ==
    IF a[Len(a)] > 0 THEN SubSeq(a, 1, Len(a) - 1) \o <<a[Len(a)] - 1>>
    ELSE MagDecRaw(SubSeq(a, 1, Len(a) - 1)) \o <<9>>

\* a digit sequence without its leading zeros
RECURSIVE StripZeros(_)
StripZeros(a) ==
    IF Len(a) > 1 /\ a[1] = 0 THEN StripZeros(Tail(a)) ELSE a

MagDec(a) == StripZeros(MagDecRaw(a))

\* x + 1 on int: the sum wraps around at the largest int
AddOne(x) ==
    IF x = MaxInt THEN MinInt
    ELSE IF ~x.neg THEN Int64(FALSE, MagInc(x.mag))
    ELSE IF x.mag = <<1>> THEN Int64(FALSE, <<0>>)
    ELSE Int64(TRUE, MagDec(x.mag))

(***************************************************************************)
(* type Version struct { Major, Minor, Patch int }                         *)
(***************************************************************************)
Version(major, minor, patch) == [Major |-> major, Minor |-> minor, Patch |-> patch]

\* the version with the small components a, b, c
SmallVersion(a, b, c) == Version(IntOf(a), IntOf(b), IntOf(c))

\* lexicographic order on (Major, Minor, Patch)
VersionLess(v, w) ==
    \/ IntLess(v.Major, w.Major)
    \/ v.Major = w.Major /\ IntLess(v.Minor, w.Minor)
    \/ v.Major = w.Major /\ v.Minor = w.Minor /\ IntLess(v.Patch, w.Patch)

(***************************************************************************)
(* fmt: decimal rendering and scanning of integers.  A string the program  *)
(* scans is the sequence of its characters; a character is a string: the   *)
(* character itself, or "U+" and its code point where it cannot be written *)
(* in a string of this module.                                             *)
(***************************************************************************)
Digits == <<"0", "1", "2", "3", "4", "5", "6", "7", "8", "9">>

IsDigit(c) == \E i \in 1..10 : Digits[i] = c

DigitValue(c) == (CHOOSE i \in 1..10 : Digits[i] = c) - 1

\* the decimal digits of a magnitude as characters
NatToStr(mag) == [i \in 1..Len(mag) |-> Digits[mag[i] + 1]]

\* the verb %d of fmt.Sprintf
FormatInt(x) == IF x.neg THEN <<"-">> \o NatToStr(x.mag) ELSE NatToStr(x.mag)

\* func (v Version) String(): fmt.Sprintf("%d.%d.%d", ...)
VersionString(v) ==
    FormatInt(v.Major) \o <<".">> \o FormatInt(v.Minor) \o <<".">> \o FormatInt(v.Patch)

\* fmt isSpace without the newline: U+0009, U+000B..U+000D, U+0020, U+0085,
\* U+00A0, U+1680, U+2000..U+200A, U+2028, U+2029, U+202F, U+205F, U+3000
Space == {"\t", "U+000B", "\f", "\r", " ", "U+0085", "U+00A0", "U+1680",
          "U+2000", "U+2001", "U+2002", "U+2003", "U+2004", "U+2005",
          "U+2006", "U+2007", "U+2008", "U+2009", "U+200A", "U+2028",
          "U+2029", "U+202F", "U+205F", "U+3000"}

\* ss.SkipSpace from position i of s, for Sscanf (newlines are not space):
\* space is passed over, a carriage return before a newline too, and a
\* newline is an error.  [ok, next]
RECURSIVE SkipSpace(_, _)
SkipSpace(s, i) ==
    IF i > Len(s) THEN [ok |-> TRUE, next |-> i]
    ELSE IF s[i] = "\n" THEN [ok |-> FALSE, next |-> i + 1]
    ELSE IF s[i] \in Space THEN SkipSpace(s, i + 1)
    ELSE [ok |-> TRUE, next |-> i]

\* ss.scanNumber: first position >= i of s that holds no digit and no "_"
RECURSIVE SkipDigits(_, _)
SkipDigits(s, i) ==
    IF i <= Len(s) /\ (IsDigit(s[i]) \/ s[i] = "_") THEN SkipDigits(s, i + 1) ELSE i

\* a token begins with a sign
HasSign(tok) == tok # <<>> /\ tok[1] \in {"+", "-"}

\* a token without its sign
Unsigned(tok) == IF HasSign(tok) THEN Tail(tok) ELSE tok

\* at least one character, and digits only
AllDigits(d) == d # <<>> /\ \A k \in 1..Len(d) : IsDigit(d[k])

\* the digits d as a magnitude
DigitsValue(d) == StripZeros([k \in 1..Len(d) |-> DigitValue(d[k])])

\* the int of a sign and a magnitude, where it is in the range of int64.
\* [ok, val]
InRange(neg, mag) ==
    IF MagLess(IF neg THEN MinInt.mag ELSE MaxInt.mag, mag)
    THEN [ok |-> FALSE, val |-> IntOf(0)]
    ELSE [ok |-> TRUE, val |-> Int64(neg /\ mag # <<0>>, mag)]

\* strconv.ParseInt(tok, 10, 64) for a token of an optional sign, digits and
\* underscores: an underscore is a syntax error, a value outside int64 a
\* range error.  [ok, val]
ParseInt(tok) ==
    IF ~AllDigits(Unsigned(tok)) THEN [ok |-> FALSE, val |-> IntOf(0)]
    ELSE InRange(HasSign(tok) /\ tok[1] = "-", DigitsValue(Unsigned(tok)))

\* ss.accept(sign): the position after an optional sign at position b of s
SkipSign(s, b) == IF b <= Len(s) /\ s[b] \in {"+", "-"} THEN b + 1 ELSE b

\* the number p (of ParseInt) and the position e after its token
Scanned(p, e) == [ok |-> p.ok, val |-> p.val, next |-> e]

\* the token s[b..e-1], whose digits and underscores begin at d, as a
\* number.  [ok, val, next]
ScanToken(s, b, d, e) ==
    IF e = d THEN [ok |-> FALSE, val |-> IntOf(0), next |-> d]
    ELSE Scanned(ParseInt(SubSeq(s, b, e - 1)), e)

\* ss.scanInt where the space has been skipped (sp is what SkipSpace gave)
ScanNumber(s, sp) ==
    IF ~sp.ok THEN [ok |-> FALSE, val |-> IntOf(0), next |-> sp.next]
    ELSE ScanToken(s, sp.next, SkipSign(s, sp.next), SkipDigits(s, SkipSign(s, sp.next)))

\* ss.scanInt for the verb %d at position i of s: space is skipped, one sign
\* is accepted, then at least one digit or underscore is needed and all that
\* follow are taken; the token goes to strconv.ParseInt.  [ok, val, next]
ScanInt(s, i) == ScanNumber(s, SkipSpace(s, i))

\* ss.doScanf: a scan is [err, next, vals]: whether it has failed, the
\* position it has reached, and the numbers stored so far
ScanStart == [err |-> FALSE, next |-> 1, vals |-> <<>>]

\* the number r (of ScanInt) is stored, or the scan fails
Store(st, r) ==
    IF r.ok THEN [err |-> FALSE, next |-> r.next, vals |-> Append(st.vals, r.val)]
    ELSE [st EXCEPT !.err = TRUE]

\* the verb %d of the format
ScanVerb(s, st) == IF st.err THEN st ELSE Store(st, ScanInt(s, st.next))

\* a literal character of the format: the next input character must be it
ScanLit(s, st, c) ==
    IF st.err THEN st
    ELSE IF st.next <= Len(s) /\ s[st.next] = c THEN [st EXCEPT !.next = @ + 1]
    ELSE [st EXCEPT !.err = TRUE]

\* the k-th number stored, 0 when the scan did not get that far
Stored3(vals, k) == IF k <= Len(vals) THEN vals[k] ELSE IntOf(0)

\* what Sscanf returns and has stored at the end of the scan st
ScanResult(st) ==
    [n |-> Len(st.vals), err |-> st.err,
     v |-> Version(Stored3(st.vals, 1), Stored3(st.vals, 2), Stored3(st.vals, 3))]

\* fmt.Sscanf(version, "%d.%d.%d", &v.Major, &v.Minor, &v.Patch): [n, err, v].
\* Scanning stops at the first verb or literal that fails; input left over
\* after the last verb is not looked at.
Sscanf3(s) ==
    ScanResult(ScanVerb(s, ScanLit(s, ScanVerb(s, ScanLit(s, ScanVerb(s, ScanStart), ".")), ".")))

\* parseVersion: err != nil || n != 3, r is what Sscanf gave
failed(r) == r.err \/ r.n # 3

\* the return statements of parseVersion
versionOf(r) == IF failed(r) THEN SmallVersion(0, 0, 0) ELSE r.v

\* func parseVersion(version string) Version: the version returned
parseVersion(version) == versionOf(Sscanf3(version))

\* parseVersion: slog.Warn("failed to parse version, using default", ...)
WarnParse == "warn: failed to parse version, using default"

\* func parseVersion(version string) Version: the records it logs
parseVersionLog(version) == IF failed(Sscanf3(version)) THEN <<WarnParse>> ELSE <<>>

(***************************************************************************)
(* type Exported struct { Types, Functions map[string]string }             *)
(* type State struct { Version string; Exported Exported }                 *)
(* A map is a function whose DOMAIN is its key set.                        *)
(***************************************************************************)
EmptyMap == [k \in {} |-> ""]

Exported(types, functions) == [Types |-> types, Functions |-> functions]

State(version, exported) == [Version |-> version, Exported |-> exported]

\* m with m[k] = v
MapSet(m, k, v) == [x \in DOMAIN m \cup {k} |-> IF x = k THEN v ELSE m[x]]

\* hasBreakingChanges that only notices removed names
hasBreakingChangesRemovedOnly(previous, current) ==
    \/ \E name \in DOMAIN previous.Types : name \notin DOMAIN current.Types
    \/ \E name \in DOMAIN previous.Functions : name \notin DOMAIN current.Functions

\* func hasBreakingChanges(previous, current Exported) bool
hasBreakingChanges(previous, current) ==
    \/ \E name \in DOMAIN previous.Types :
          \/ name \notin DOMAIN current.Types
          \/ current.Types[name] # previous.Types[name]
    \/ \E name \in DOMAIN previous.Functions :
          \/ name \notin DOMAIN current.Functions
          \/ current.Functions[name] # previous.Functions[name]

\* hasNewFeatures that looks at the types only
hasNewFeaturesTypesOnly(previous, current) ==
    \E name \in DOMAIN current.Types : name \notin DOMAIN previous.Types

\* func hasNewFeatures(previous, current Exported) bool
hasNewFeatures(previous, current) ==
    \/ \E name \in DOMAIN current.Types : name \notin DOMAIN previous.Types
    \/ \E name \in DOMAIN current.Functions : name \notin DOMAIN previous.Functions

\* the three return statements of calculateVersion
bump(previousVersion, hasBreaking, hasFeatures) ==
    IF hasBreaking
    THEN Version(AddOne(previousVersion.Major), IntOf(0), IntOf(0))
    ELSE IF hasFeatures
    THEN Version(previousVersion.Major, AddOne(previousVersion.Minor), IntOf(0))
    ELSE Version(previousVersion.Major, previousVersion.Minor,
                 AddOne(previousVersion.Patch))

\* calculateVersion with the two tests in the wrong order: a new name makes
\* the change additive whatever else changed
calculateVersionFeaturesFirst(prevState, currentExp) ==
    bump(parseVersion(prevState.Version),
         hasBreakingChanges(prevState.Exported, currentExp)
            /\ ~hasNewFeatures(prevState.Exported, currentExp),
         hasNewFeatures(prevState.Exported, currentExp))

\* func calculateVersion(previousState State, currentExported Exported) Version
calculateVersion(prevState, currentExp) ==
    bump(parseVersion(prevState.Version),
         hasBreakingChanges(prevState.Exported, currentExp),
         hasNewFeatures(prevState.Exported, currentExp))

(***************************************************************************)
(* go/ast: the parse tree as far as the program reads it.  An identifier   *)
(* is the sequence of its characters: ASCII letters, digits and "_" as     *)
(* themselves, an upper-case letter outside ASCII as "U+" and its code     *)
(* point.  A position is a line number, 0 for no position.                 *)
(***************************************************************************)
UpperASCII == {"A", "B", "C", "D", "E", "F", "G", "H", "I", "J", "K", "L", "M",
               "N", "O", "P", "Q", "R", "S", "T", "U", "V", "W", "X", "Y", "Z"}

\* the letters of category Lu (Unicode 15.0) that UTF-8 writes in two bytes
Upper2 == {
    "U+00C0", "U+00C1", "U+00C2", "U+00C3", "U+00C4", "U+00C5", "U+00C6",
    "U+00C7", "U+00C8", "U+00C9", "U+00CA", "U+00CB", "U+00CC", "U+00CD",
    "U+00CE", "U+00CF", "U+00D0", "U+00D1", "U+00D2", "U+00D3", "U+00D4",
    "U+00D5", "U+00D6", "U+00D8", "U+00D9", "U+00DA", "U+00DB", "U+00DC",
    "U+00DD", "U+00DE", "U+0100", "U+0102", "U+0104", "U+0106", "U+0108",
    "U+010A", "U+010C", "U+010E", "U+0110", "U+0112", "U+0114", "U+0116",
    "U+0118", "U+011A", "U+011C", "U+011E", "U+0120", "U+0122", "U+0124",
    "U+0126", "U+0128", "U+012A", "U+012C", "U+012E", "U+0130", "U+0132",
    "U+0134", "U+0136", "U+0139", "U+013B", "U+013D", "U+013F", "U+0141",
    "U+0143", "U+0145", "U+0147", "U+014A", "U+014C", "U+014E", "U+0150",
    "U+0152", "U+0154", "U+0156", "U+0158", "U+015A", "U+015C", "U+015E",
    "U+0160", "U+0162", "U+0164", "U+0166", "U+0168", "U+016A", "U+016C",
    "U+016E", "U+0170", "U+0172", "U+0174", "U+0176", "U+0178", "U+0179",
    "U+017B", "U+017D", "U+0181", "U+0182", "U+0184", "U+0186", "U+0187",
    "U+0189", "U+018A", "U+018B", "U+018E", "U+018F", "U+0190", "U+0191",
    "U+0193", "U+0194", "U+0196", "U+0197", "U+0198", "U+019C", "U+019D",
    "U+019F", "U+01A0", "U+01A2", "U+01A4", "U+01A6", "U+01A7", "U+01A9",
    "U+01AC", "U+01AE", "U+01AF", "U+01B1", "U+01B2", "U+01B3", "U+01B5",
    "U+01B7", "U+01B8", "U+01BC", "U+01C4", "U+01C7", "U+01CA", "U+01CD",
    "U+01CF", "U+01D1", "U+01D3", "U+01D5", "U+01D7", "U+01D9", "U+01DB",
    "U+01DE", "U+01E0", "U+01E2", "U+01E4", "U+01E6", "U+01E8", "U+01EA",
    "U+01EC", "U+01EE", "U+01F1", "U+01F4", "U+01F6", "U+01F7", "U+01F8",
    "U+01FA", "U+01FC", "U+01FE", "U+0200", "U+0202", "U+0204", "U+0206",
    "U+0208", "U+020A", "U+020C", "U+020E", "U+0210", "U+0212", "U+0214",
    "U+0216", "U+0218", "U+021A", "U+021C", "U+021E", "U+0220", "U+0222",
    "U+0224", "U+0226", "U+0228", "U+022A", "U+022C", "U+022E", "U+0230",
    "U+0232", "U+023A", "U+023B", "U+023D", "U+023E", "U+0241", "U+0243",
    "U+0244", "U+0245", "U+0246", "U+0248", "U+024A", "U+024C", "U+024E",
    "U+0370", "U+0372", "U+0376", "U+037F", "U+0386", "U+0388", "U+0389",
    "U+038A", "U+038C", "U+038E", "U+038F", "U+0391", "U+0392", "U+0393",
    "U+0394", "U+0395", "U+0396", "U+0397", "U+0398", "U+0399", "U+039A",
    "U+039B", "U+039C", "U+039D", "U+039E", "U+039F", "U+03A0", "U+03A1",
    "U+03A3", "U+03A4", "U+03A5", "U+03A6", "U+03A7", "U+03A8", "U+03A9",
    "U+03AA", "U+03AB", "U+03CF", "U+03D2", "U+03D3", "U+03D4", "U+03D8",
    "U+03DA", "U+03DC", "U+03DE", "U+03E0", "U+03E2", "U+03E4", "U+03E6",
    "U+03E8", "U+03EA", "U+03EC", "U+03EE", "U+03F4", "U+03F7", "U+03F9",
    "U+03FA", "U+03FD", "U+03FE", "U+03FF", "U+0400", "U+0401", "U+0402",
    "U+0403", "U+0404", "U+0405", "U+0406", "U+0407", "U+0408", "U+0409",
    "U+040A", "U+040B", "U+040C", "U+040D", "U+040E", "U+040F", "U+0410",
    "U+0411", "U+0412", "U+0413", "U+0414", "U+0415", "U+0416", "U+0417",
    "U+0418", "U+0419", "U+041A", "U+041B", "U+041C", "U+041D", "U+041E",
    "U+041F", "U+0420", "U+0421", "U+0422", "U+0423", "U+0424", "U+0425",
    "U+0426", "U+0427", "U+0428", "U+0429", "U+042A", "U+042B", "U+042C",
    "U+042D", "U+042E", "U+042F", "U+0460", "U+0462", "U+0464", "U+0466",
    "U+0468", "U+046A", "U+046C", "U+046E", "U+0470", "U+0472", "U+0474",
    "U+0476", "U+0478", "U+047A", "U+047C", "U+047E", "U+0480", "U+048A",
    "U+048C", "U+048E", "U+0490", "U+0492", "U+0494", "U+0496", "U+0498",
    "U+049A", "U+049C", "U+049E", "U+04A0", "U+04A2", "U+04A4", "U+04A6",
    "U+04A8", "U+04AA", "U+04AC", "U+04AE", "U+04B0", "U+04B2", "U+04B4",
    "U+04B6", "U+04B8", "U+04BA", "U+04BC", "U+04BE", "U+04C0", "U+04C1",
    "U+04C3", "U+04C5", "U+04C7", "U+04C9", "U+04CB", "U+04CD", "U+04D0",
    "U+04D2", "U+04D4", "U+04D6", "U+04D8", "U+04DA", "U+04DC", "U+04DE",
    "U+04E0", "U+04E2", "U+04E4", "U+04E6", "U+04E8", "U+04EA", "U+04EC",
    "U+04EE", "U+04F0", "U+04F2", "U+04F4", "U+04F6", "U+04F8", "U+04FA",
    "U+04FC", "U+04FE", "U+0500", "U+0502", "U+0504", "U+0506", "U+0508",
    "U+050A", "U+050C", "U+050E", "U+0510", "U+0512", "U+0514", "U+0516",
    "U+0518", "U+051A", "U+051C", "U+051E", "U+0520", "U+0522", "U+0524",
    "U+0526", "U+0528", "U+052A", "U+052C", "U+052E", "U+0531", "U+0532",
    "U+0533", "U+0534", "U+0535", "U+0536", "U+0537", "U+0538", "U+0539",
    "U+053A", "U+053B", "U+053C", "U+053D", "U+053E", "U+053F", "U+0540",
    "U+0541", "U+0542", "U+0543", "U+0544", "U+0545", "U+0546", "U+0547",
    "U+0548", "U+0549", "U+054A", "U+054B", "U+054C", "U+054D", "U+054E",
    "U+054F", "U+0550", "U+0551", "U+0552", "U+0553", "U+0554", "U+0555",
    "U+0556"}

\* ... in three bytes
Upper3 == {
    "U+10A0", "U+10A1", "U+10A2", "U+10A3", "U+10A4", "U+10A5", "U+10A6",
    "U+10A7", "U+10A8", "U+10A9", "U+10AA", "U+10AB", "U+10AC", "U+10AD",
    "U+10AE", "U+10AF", "U+10B0", "U+10B1", "U+10B2", "U+10B3", "U+10B4",
    "U+10B5", "U+10B6", "U+10B7", "U+10B8", "U+10B9", "U+10BA", "U+10BB",
    "U+10BC", "U+10BD", "U+10BE", "U+10BF", "U+10C0", "U+10C1", "U+10C2",
    "U+10C3", "U+10C4", "U+10C5", "U+10C7", "U+10CD", "U+13A0", "U+13A1",
    "U+13A2", "U+13A3", "U+13A4", "U+13A5", "U+13A6", "U+13A7", "U+13A8",
    "U+13A9", "U+13AA", "U+13AB", "U+13AC", "U+13AD", "U+13AE", "U+13AF",
    "U+13B0", "U+13B1", "U+13B2", "U+13B3", "U+13B4", "U+13B5", "U+13B6",
    "U+13B7", "U+13B8", "U+13B9", "U+13BA", "U+13BB", "U+13BC", "U+13BD",
    "U+13BE", "U+13BF", "U+13C0", "U+13C1", "U+13C2", "U+13C3", "U+13C4",
    "U+13C5", "U+13C6", "U+13C7", "U+13C8", "U+13C9", "U+13CA", "U+13CB",
    "U+13CC", "U+13CD", "U+13CE", "U+13CF", "U+13D0", "U+13D1", "U+13D2",
    "U+13D3", "U+13D4", "U+13D5", "U+13D6", "U+13D7", "U+13D8", "U+13D9",
    "U+13DA", "U+13DB", "U+13DC", "U+13DD", "U+13DE", "U+13DF", "U+13E0",
    "U+13E1", "U+13E2", "U+13E3", "U+13E4", "U+13E5", "U+13E6", "U+13E7",
    "U+13E8", "U+13E9", "U+13EA", "U+13EB", "U+13EC", "U+13ED", "U+13EE",
    "U+13EF", "U+13F0", "U+13F1", "U+13F2", "U+13F3", "U+13F4", "U+13F5",
    "U+1C90", "U+1C91", "U+1C92", "U+1C93", "U+1C94", "U+1C95", "U+1C96",
    "U+1C97", "U+1C98", "U+1C99", "U+1C9A", "U+1C9B", "U+1C9C", "U+1C9D",
    "U+1C9E", "U+1C9F", "U+1CA0", "U+1CA1", "U+1CA2", "U+1CA3", "U+1CA4",
    "U+1CA5", "U+1CA6", "U+1CA7", "U+1CA8", "U+1CA9", "U+1CAA", "U+1CAB",
    "U+1CAC", "U+1CAD", "U+1CAE", "U+1CAF", "U+1CB0", "U+1CB1", "U+1CB2",
    "U+1CB3", "U+1CB4", "U+1CB5", "U+1CB6", "U+1CB7", "U+1CB8", "U+1CB9",
    "U+1CBA", "U+1CBD", "U+1CBE", "U+1CBF", "U+1E00", "U+1E02", "U+1E04",
    "U+1E06", "U+1E08", "U+1E0A", "U+1E0C", "U+1E0E", "U+1E10", "U+1E12",
    "U+1E14", "U+1E16", "U+1E18", "U+1E1A", "U+1E1C", "U+1E1E", "U+1E20",
    "U+1E22", "U+1E24", "U+1E26", "U+1E28", "U+1E2A", "U+1E2C", "U+1E2E",
    "U+1E30", "U+1E32", "U+1E34", "U+1E36", "U+1E38", "U+1E3A", "U+1E3C",
    "U+1E3E", "U+1E40", "U+1E42", "U+1E44", "U+1E46", "U+1E48", "U+1E4A",
    "U+1E4C", "U+1E4E", "U+1E50", "U+1E52", "U+1E54", "U+1E56", "U+1E58",
    "U+1E5A", "U+1E5C", "U+1E5E", "U+1E60", "U+1E62", "U+1E64", "U+1E66",
    "U+1E68", "U+1E6A", "U+1E6C", "U+1E6E", "U+1E70", "U+1E72", "U+1E74",
    "U+1E76", "U+1E78", "U+1E7A", "U+1E7C", "U+1E7E", "U+1E80", "U+1E82",
    "U+1E84", "U+1E86", "U+1E88", "U+1E8A", "U+1E8C", "U+1E8E", "U+1E90",
    "U+1E92", "U+1E94", "U+1E9E", "U+1EA0", "U+1EA2", "U+1EA4", "U+1EA6",
    "U+1EA8", "U+1EAA", "U+1EAC", "U+1EAE", "U+1EB0", "U+1EB2", "U+1EB4",
    "U+1EB6", "U+1EB8", "U+1EBA", "U+1EBC", "U+1EBE", "U+1EC0", "U+1EC2",
    "U+1EC4", "U+1EC6", "U+1EC8", "U+1ECA", "U+1ECC", "U+1ECE", "U+1ED0",
    "U+1ED2", "U+1ED4", "U+1ED6", "U+1ED8", "U+1EDA", "U+1EDC", "U+1EDE",
    "U+1EE0", "U+1EE2", "U+1EE4", "U+1EE6", "U+1EE8", "U+1EEA", "U+1EEC",
    "U+1EEE", "U+1EF0", "U+1EF2", "U+1EF4", "U+1EF6", "U+1EF8", "U+1EFA",
    "U+1EFC", "U+1EFE", "U+1F08", "U+1F09", "U+1F0A", "U+1F0B", "U+1F0C",
    "U+1F0D", "U+1F0E", "U+1F0F", "U+1F18", "U+1F19", "U+1F1A", "U+1F1B",
    "U+1F1C", "U+1F1D", "U+1F28", "U+1F29", "U+1F2A", "U+1F2B", "U+1F2C",
    "U+1F2D", "U+1F2E", "U+1F2F", "U+1F38", "U+1F39", "U+1F3A", "U+1F3B",
    "U+1F3C", "U+1F3D", "U+1F3E", "U+1F3F", "U+1F48", "U+1F49", "U+1F4A",
    "U+1F4B", "U+1F4C", "U+1F4D", "U+1F59", "U+1F5B", "U+1F5D", "U+1F5F",
    "U+1F68", "U+1F69", "U+1F6A", "U+1F6B", "U+1F6C", "U+1F6D", "U+1F6E",
    "U+1F6F", "U+1FB8", "U+1FB9", "U+1FBA", "U+1FBB", "U+1FC8", "U+1FC9",
    "U+1FCA", "U+1FCB", "U+1FD8", "U+1FD9", "U+1FDA", "U+1FDB", "U+1FE8",
    "U+1FE9", "U+1FEA", "U+1FEB", "U+1FEC", "U+1FF8", "U+1FF9", "U+1FFA",
    "U+1FFB", "U+2102", "U+2107", "U+210B", "U+210C", "U+210D", "U+2110",
    "U+2111", "U+2112", "U+2115", "U+2119", "U+211A", "U+211B", "U+211C",
    "U+211D", "U+2124", "U+2126", "U+2128", "U+212A", "U+212B", "U+212C",
    "U+212D", "U+2130", "U+2131", "U+2132", "U+2133", "U+213E", "U+213F",
    "U+2145", "U+2183", "U+2C00", "U+2C01", "U+2C02", "U+2C03", "U+2C04",
    "U+2C05", "U+2C06", "U+2C07", "U+2C08", "U+2C09", "U+2C0A", "U+2C0B",
    "U+2C0C", "U+2C0D", "U+2C0E", "U+2C0F", "U+2C10", "U+2C11", "U+2C12",
    "U+2C13", "U+2C14", "U+2C15", "U+2C16", "U+2C17", "U+2C18", "U+2C19",
    "U+2C1A", "U+2C1B", "U+2C1C", "U+2C1D", "U+2C1E", "U+2C1F", "U+2C20",
    "U+2C21", "U+2C22", "U+2C23", "U+2C24", "U+2C25", "U+2C26", "U+2C27",
    "U+2C28", "U+2C29", "U+2C2A", "U+2C2B", "U+2C2C", "U+2C2D", "U+2C2E",
    "U+2C2F", "U+2C60", "U+2C62", "U+2C63", "U+2C64", "U+2C67", "U+2C69",
    "U+2C6B", "U+2C6D", "U+2C6E", "U+2C6F", "U+2C70", "U+2C72", "U+2C75",
    "U+2C7E", "U+2C7F", "U+2C80", "U+2C82", "U+2C84", "U+2C86", "U+2C88",
    "U+2C8A", "U+2C8C", "U+2C8E", "U+2C90", "U+2C92", "U+2C94", "U+2C96",
    "U+2C98", "U+2C9A", "U+2C9C", "U+2C9E", "U+2CA0", "U+2CA2", "U+2CA4",
    "U+2CA6", "U+2CA8", "U+2CAA", "U+2CAC", "U+2CAE", "U+2CB0", "U+2CB2",
    "U+2CB4", "U+2CB6", "U+2CB8", "U+2CBA", "U+2CBC", "U+2CBE", "U+2CC0",
    "U+2CC2", "U+2CC4", "U+2CC6", "U+2CC8", "U+2CCA", "U+2CCC", "U+2CCE",
    "U+2CD0", "U+2CD2", "U+2CD4", "U+2CD6", "U+2CD8", "U+2CDA", "U+2CDC",
    "U+2CDE", "U+2CE0", "U+2CE2", "U+2CEB", "U+2CED", "U+2CF2", "U+A640",
    "U+A642", "U+A644", "U+A646", "U+A648", "U+A64A", "U+A64C", "U+A64E",
    "U+A650", "U+A652", "U+A654", "U+A656", "U+A658", "U+A65A", "U+A65C",
    "U+A65E", "U+A660", "U+A662", "U+A664", "U+A666", "U+A668", "U+A66A",
    "U+A66C", "U+A680", "U+A682", "U+A684", "U+A686", "U+A688", "U+A68A",
    "U+A68C", "U+A68E", "U+A690", "U+A692", "U+A694", "U+A696", "U+A698",
    "U+A69A", "U+A722", "U+A724", "U+A726", "U+A728", "U+A72A", "U+A72C",
    "U+A72E", "U+A732", "U+A734", "U+A736", "U+A738", "U+A73A", "U+A73C",
    "U+A73E", "U+A740", "U+A742", "U+A744", "U+A746", "U+A748", "U+A74A",
    "U+A74C", "U+A74E", "U+A750", "U+A752", "U+A754", "U+A756", "U+A758",
    "U+A75A", "U+A75C", "U+A75E", "U+A760", "U+A762", "U+A764", "U+A766",
    "U+A768", "U+A76A", "U+A76C", "U+A76E", "U+A779", "U+A77B", "U+A77D",
    "U+A77E", "U+A780", "U+A782", "U+A784", "U+A786", "U+A78B", "U+A78D",
    "U+A790", "U+A792", "U+A796", "U+A798", "U+A79A", "U+A79C", "U+A79E",
    "U+A7A0", "U+A7A2", "U+A7A4", "U+A7A6", "U+A7A8", "U+A7AA", "U+A7AB",
    "U+A7AC", "U+A7AD", "U+A7AE", "U+A7B0", "U+A7B1", "U+A7B2", "U+A7B3",
    "U+A7B4", "U+A7B6", "U+A7B8", "U+A7BA", "U+A7BC", "U+A7BE", "U+A7C0",
    "U+A7C2", "U+A7C4", "U+A7C5", "U+A7C6", "U+A7C7", "U+A7C9", "U+A7D0",
    "U+A7D6", "U+A7D8", "U+A7F5", "U+FF21", "U+FF22", "U+FF23", "U+FF24",
    "U+FF25", "U+FF26", "U+FF27", "U+FF28", "U+FF29", "U+FF2A", "U+FF2B",
    "U+FF2C", "U+FF2D", "U+FF2E", "U+FF2F", "U+FF30", "U+FF31", "U+FF32",
    "U+FF33", "U+FF34", "U+FF35", "U+FF36", "U+FF37", "U+FF38", "U+FF39",
    "U+FF3A"}

\* ... in four bytes
Upper4 == {
    "U+10400", "U+10401", "U+10402", "U+10403", "U+10404", "U+10405",
    "U+10406", "U+10407", "U+10408", "U+10409", "U+1040A", "U+1040B",
    "U+1040C", "U+1040D", "U+1040E", "U+1040F", "U+10410", "U+10411",
    "U+10412", "U+10413", "U+10414", "U+10415", "U+10416", "U+10417",
    "U+10418", "U+10419", "U+1041A", "U+1041B", "U+1041C", "U+1041D",
    "U+1041E", "U+1041F", "U+10420", "U+10421", "U+10422", "U+10423",
    "U+10424", "U+10425", "U+10426", "U+10427", "U+104B0", "U+104B1",
    "U+104B2", "U+104B3", "U+104B4", "U+104B5", "U+104B6", "U+104B7",
    "U+104B8", "U+104B9", "U+104BA", "U+104BB", "U+104BC", "U+104BD",
    "U+104BE", "U+104BF", "U+104C0", "U+104C1", "U+104C2", "U+104C3",
    "U+104C4", "U+104C5", "U+104C6", "U+104C7", "U+104C8", "U+104C9",
    "U+104CA", "U+104CB", "U+104CC", "U+104CD", "U+104CE", "U+104CF",
    "U+104D0", "U+104D1", "U+104D2", "U+104D3", "U+10570", "U+10571",
    "U+10572", "U+10573", "U+10574", "U+10575", "U+10576", "U+10577",
    "U+10578", "U+10579", "U+1057A", "U+1057C", "U+1057D", "U+1057E",
    "U+1057F", "U+10580", "U+10581", "U+10582", "U+10583", "U+10584",
    "U+10585", "U+10586", "U+10587", "U+10588", "U+10589", "U+1058A",
    "U+1058C", "U+1058D", "U+1058E", "U+1058F", "U+10590", "U+10591",
    "U+10592", "U+10594", "U+10595", "U+10C80", "U+10C81", "U+10C82",
    "U+10C83", "U+10C84", "U+10C85", "U+10C86", "U+10C87", "U+10C88",
    "U+10C89", "U+10C8A", "U+10C8B", "U+10C8C", "U+10C8D", "U+10C8E",
    "U+10C8F", "U+10C90", "U+10C91", "U+10C92", "U+10C93", "U+10C94",
    "U+10C95", "U+10C96", "U+10C97", "U+10C98", "U+10C99", "U+10C9A",
    "U+10C9B", "U+10C9C", "U+10C9D", "U+10C9E", "U+10C9F", "U+10CA0",
    "U+10CA1", "U+10CA2", "U+10CA3", "U+10CA4", "U+10CA5", "U+10CA6",
    "U+10CA7", "U+10CA8", "U+10CA9", "U+10CAA", "U+10CAB", "U+10CAC",
    "U+10CAD", "U+10CAE", "U+10CAF", "U+10CB0", "U+10CB1", "U+10CB2",
    "U+118A0", "U+118A1", "U+118A2", "U+118A3", "U+118A4", "U+118A5",
    "U+118A6", "U+118A7", "U+118A8", "U+118A9", "U+118AA", "U+118AB",
    "U+118AC", "U+118AD", "U+118AE", "U+118AF", "U+118B0", "U+118B1",
    "U+118B2", "U+118B3", "U+118B4", "U+118B5", "U+118B6", "U+118B7",
    "U+118B8", "U+118B9", "U+118BA", "U+118BB", "U+118BC", "U+118BD",
    "U+118BE", "U+118BF", "U+16E40", "U+16E41", "U+16E42", "U+16E43",
    "U+16E44", "U+16E45", "U+16E46", "U+16E47", "U+16E48", "U+16E49",
    "U+16E4A", "U+16E4B", "U+16E4C", "U+16E4D", "U+16E4E", "U+16E4F",
    "U+16E50", "U+16E51", "U+16E52", "U+16E53", "U+16E54", "U+16E55",
    "U+16E56", "U+16E57", "U+16E58", "U+16E59", "U+16E5A", "U+16E5B",
    "U+16E5C", "U+16E5D", "U+16E5E", "U+16E5F", "U+1D400", "U+1D401",
    "U+1D402", "U+1D403", "U+1D404", "U+1D405", "U+1D406", "U+1D407",
    "U+1D408", "U+1D409", "U+1D40A", "U+1D40B", "U+1D40C", "U+1D40D",
    "U+1D40E", "U+1D40F", "U+1D410", "U+1D411", "U+1D412", "U+1D413",
    "U+1D414", "U+1D415", "U+1D416", "U+1D417", "U+1D418", "U+1D419",
    "U+1D434", "U+1D435", "U+1D436", "U+1D437", "U+1D438", "U+1D439",
    "U+1D43A", "U+1D43B", "U+1D43C", "U+1D43D", "U+1D43E", "U+1D43F",
    "U+1D440", "U+1D441", "U+1D442", "U+1D443", "U+1D444", "U+1D445",
    "U+1D446", "U+1D447", "U+1D448", "U+1D449", "U+1D44A", "U+1D44B",
    "U+1D44C", "U+1D44D", "U+1D468", "U+1D469", "U+1D46A", "U+1D46B",
    "U+1D46C", "U+1D46D", "U+1D46E", "U+1D46F", "U+1D470", "U+1D471",
    "U+1D472", "U+1D473", "U+1D474", "U+1D475", "U+1D476", "U+1D477",
    "U+1D478", "U+1D479", "U+1D47A", "U+1D47B", "U+1D47C", "U+1D47D",
    "U+1D47E", "U+1D47F", "U+1D480", "U+1D481", "U+1D49C", "U+1D49E",
    "U+1D49F", "U+1D4A2", "U+1D4A5", "U+1D4A6", "U+1D4A9", "U+1D4AA",
    "U+1D4AB", "U+1D4AC", "U+1D4AE", "U+1D4AF", "U+1D4B0", "U+1D4B1",
    "U+1D4B2", "U+1D4B3", "U+1D4B4", "U+1D4B5", "U+1D4D0", "U+1D4D1",
    "U+1D4D2", "U+1D4D3", "U+1D4D4", "U+1D4D5", "U+1D4D6", "U+1D4D7",
    "U+1D4D8", "U+1D4D9", "U+1D4DA", "U+1D4DB", "U+1D4DC", "U+1D4DD",
    "U+1D4DE", "U+1D4DF", "U+1D4E0", "U+1D4E1", "U+1D4E2", "U+1D4E3",
    "U+1D4E4", "U+1D4E5", "U+1D4E6", "U+1D4E7", "U+1D4E8", "U+1D4E9",
    "U+1D504", "U+1D505", "U+1D507", "U+1D508", "U+1D509", "U+1D50A",
    "U+1D50D", "U+1D50E", "U+1D50F", "U+1D510", "U+1D511", "U+1D512",
    "U+1D513", "U+1D514", "U+1D516", "U+1D517", "U+1D518", "U+1D519",
    "U+1D51A", "U+1D51B", "U+1D51C", "U+1D538", "U+1D539", "U+1D53B",
    "U+1D53C", "U+1D53D", "U+1D53E", "U+1D540", "U+1D541", "U+1D542",
    "U+1D543", "U+1D544", "U+1D546", "U+1D54A", "U+1D54B", "U+1D54C",
    "U+1D54D", "U+1D54E", "U+1D54F", "U+1D550", "U+1D56C", "U+1D56D",
    "U+1D56E", "U+1D56F", "U+1D570", "U+1D571", "U+1D572", "U+1D573",
    "U+1D574", "U+1D575", "U+1D576", "U+1D577", "U+1D578", "U+1D579",
    "U+1D57A", "U+1D57B", "U+1D57C", "U+1D57D", "U+1D57E", "U+1D57F",
    "U+1D580", "U+1D581", "U+1D582", "U+1D583", "U+1D584", "U+1D585",
    "U+1D5A0", "U+1D5A1", "U+1D5A2", "U+1D5A3", "U+1D5A4", "U+1D5A5",
    "U+1D5A6", "U+1D5A7", "U+1D5A8", "U+1D5A9", "U+1D5AA", "U+1D5AB",
    "U+1D5AC", "U+1D5AD", "U+1D5AE", "U+1D5AF", "U+1D5B0", "U+1D5B1",
    "U+1D5B2", "U+1D5B3", "U+1D5B4", "U+1D5B5", "U+1D5B6", "U+1D5B7",
    "U+1D5B8", "U+1D5B9", "U+1D5D4", "U+1D5D5", "U+1D5D6", "U+1D5D7",
    "U+1D5D8", "U+1D5D9", "U+1D5DA", "U+1D5DB", "U+1D5DC", "U+1D5DD",
    "U+1D5DE", "U+1D5DF", "U+1D5E0", "U+1D5E1", "U+1D5E2", "U+1D5E3",
    "U+1D5E4", "U+1D5E5", "U+1D5E6", "U+1D5E7", "U+1D5E8", "U+1D5E9",
    "U+1D5EA", "U+1D5EB", "U+1D5EC", "U+1D5ED", "U+1D608", "U+1D609",
    "U+1D60A", "U+1D60B", "U+1D60C", "U+1D60D", "U+1D60E", "U+1D60F",
    "U+1D610", "U+1D611", "U+1D612", "U+1D613", "U+1D614", "U+1D615",
    "U+1D616", "U+1D617", "U+1D618", "U+1D619", "U+1D61A", "U+1D61B",
    "U+1D61C", "U+1D61D", "U+1D61E", "U+1D61F", "U+1D620", "U+1D621",
    "U+1D63C", "U+1D63D", "U+1D63E", "U+1D63F", "U+1D640", "U+1D641",
    "U+1D642", "U+1D643", "U+1D644", "U+1D645", "U+1D646", "U+1D647",
    "U+1D648", "U+1D649", "U+1D64A", "U+1D64B", "U+1D64C", "U+1D64D",
    "U+1D64E", "U+1D64F", "U+1D650", "U+1D651", "U+1D652", "U+1D653",
    "U+1D654", "U+1D655", "U+1D670", "U+1D671", "U+1D672", "U+1D673",
    "U+1D674", "U+1D675", "U+1D676", "U+1D677", "U+1D678", "U+1D679",
    "U+1D67A", "U+1D67B", "U+1D67C", "U+1D67D", "U+1D67E", "U+1D67F",
    "U+1D680", "U+1D681", "U+1D682", "U+1D683", "U+1D684", "U+1D685",
    "U+1D686", "U+1D687", "U+1D688", "U+1D689", "U+1D6A8", "U+1D6A9",
    "U+1D6AA", "U+1D6AB", "U+1D6AC", "U+1D6AD", "U+1D6AE", "U+1D6AF",
    "U+1D6B0", "U+1D6B1", "U+1D6B2", "U+1D6B3", "U+1D6B4", "U+1D6B5",
    "U+1D6B6", "U+1D6B7", "U+1D6B8", "U+1D6B9", "U+1D6BA", "U+1D6BB",
    "U+1D6BC", "U+1D6BD", "U+1D6BE", "U+1D6BF", "U+1D6C0", "U+1D6E2",
    "U+1D6E3", "U+1D6E4", "U+1D6E5", "U+1D6E6", "U+1D6E7", "U+1D6E8",
    "U+1D6E9", "U+1D6EA", "U+1D6EB", "U+1D6EC", "U+1D6ED", "U+1D6EE",
    "U+1D6EF", "U+1D6F0", "U+1D6F1", "U+1D6F2", "U+1D6F3", "U+1D6F4",
    "U+1D6F5", "U+1D6F6", "U+1D6F7", "U+1D6F8", "U+1D6F9", "U+1D6FA",
    "U+1D71C", "U+1D71D", "U+1D71E", "U+1D71F", "U+1D720", "U+1D721",
    "U+1D722", "U+1D723", "U+1D724", "U+1D725", "U+1D726", "U+1D727",
    "U+1D728", "U+1D729", "U+1D72A", "U+1D72B", "U+1D72C", "U+1D72D",
    "U+1D72E", "U+1D72F", "U+1D730", "U+1D731", "U+1D732", "U+1D733",
    "U+1D734", "U+1D756", "U+1D757", "U+1D758", "U+1D759", "U+1D75A",
    "U+1D75B", "U+1D75C", "U+1D75D", "U+1D75E", "U+1D75F", "U+1D760",
    "U+1D761", "U+1D762", "U+1D763", "U+1D764", "U+1D765", "U+1D766",
    "U+1D767", "U+1D768", "U+1D769", "U+1D76A", "U+1D76B", "U+1D76C",
    "U+1D76D", "U+1D76E", "U+1D790", "U+1D791", "U+1D792", "U+1D793",
    "U+1D794", "U+1D795", "U+1D796", "U+1D797", "U+1D798", "U+1D799",
    "U+1D79A", "U+1D79B", "U+1D79C", "U+1D79D", "U+1D79E", "U+1D79F",
    "U+1D7A0", "U+1D7A1", "U+1D7A2", "U+1D7A3", "U+1D7A4", "U+1D7A5",
    "U+1D7A6", "U+1D7A7", "U+1D7A8", "U+1D7CA", "U+1E900", "U+1E901",
    "U+1E902", "U+1E903", "U+1E904", "U+1E905", "U+1E906", "U+1E907",
    "U+1E908", "U+1E909", "U+1E90A", "U+1E90B", "U+1E90C", "U+1E90D",
    "U+1E90E", "U+1E90F", "U+1E910", "U+1E911", "U+1E912", "U+1E913",
    "U+1E914", "U+1E915", "U+1E916", "U+1E917", "U+1E918", "U+1E919",
    "U+1E91A", "U+1E91B", "U+1E91C", "U+1E91D", "U+1E91E", "U+1E91F",
    "U+1E920", "U+1E921"}

\* unicode.IsUpper
Upper == UpperASCII \cup Upper2 \cup Upper3 \cup Upper4

\* ast.IsExported: the first character of the name is an upper-case letter
IsExported(name) == Len(name) > 0 /\ name[1] \in Upper

\* the number of bytes of a character in UTF-8
Utf8Len(c) ==
    IF c \in Upper2 THEN 2 ELSE IF c \in Upper3 THEN 3 ELSE IF c \in Upper4 THEN 4 ELSE 1

\* len(name): the bytes of an identifier
RECURSIVE ByteLen(_)
ByteLen(name) ==
    IF name = <<>> THEN 0 ELSE Utf8Len(name[1]) + ByteLen(Tail(name))

\* the identifier as a string
RECURSIVE IdentStr(_)
IdentStr(name) ==
    IF name = <<>> THEN "" ELSE name[1] \o IdentStr(Tail(name))

\* ast.Field: Names (none for an embedded field or an unnamed parameter),
\* Type (an identifier), the line it is on and its line comment ("" when it
\* has none).  The fields modelled have no doc comment and no tag.
Field(names, type, line, comment) ==
    [Names |-> names, Type |-> type, Line |-> line, Comment |-> comment]

\* ast.FieldList: the lines of the opening and closing bracket, and the fields
FieldList(opening, list, closing) ==
    [Opening |-> opening, List |-> list, Closing |-> closing]

\* ast.StructType: positions of the braces and the field list
StructType(opening, list, closing) ==
    [node |-> "StructType", Opening |-> opening, List |-> list, Closing |-> closing]

\* any other type expression, e.g. ast.Ident
OtherType(text) == [node |-> "Expr", Text |-> text]

\* ast.FuncType without type parameters: Params and Results are field lists
FuncType(params, results) == [node |-> "FuncType", Params |-> params, Results |-> results]

\* the Results of a function that returns nothing
NoResults == FieldList(0, <<>>, 0)

\* ast.TypeSpec and the other specs of a GenDecl (import, const, var)
TypeSpec(name, type) == [spec |-> "TypeSpec", Name |-> name, Type |-> type]
ValueSpec(name) == [spec |-> "ValueSpec", Name |-> name]

\* ast.GenDecl and ast.FuncDecl (Recv is "" for a function)
GenDecl(specs) == [decl |-> "GenDecl", Specs |-> specs]
FuncDecl(recv, name, type) == [decl |-> "FuncDecl", Recv |-> recv, Name |-> name, Type |-> type]

(***************************************************************************)
(* go/format.Node on the nodes the program hands it.  The printer works    *)
(* from the positions kept in the nodes: a struct whose braces are on one  *)
(* line stays on one line when it has at most one short field, a field or  *)
(* parameter on a later line than the one before it starts a line, and of  *)
(* the empty lines between two of them one is kept.  Without a file, the   *)
(* comments attached to the nodes are printed.  text/tabwriter then pads   *)
(* the names, and the types before comments, of successive lines to one    *)
(* width.                                                                  *)
(***************************************************************************)
RECURSIVE JoinIdents(_)
JoinIdents(names) ==
    IF names = <<>> THEN ""
    ELSE IF Len(names) = 1 THEN IdentStr(names[1])
    ELSE IdentStr(names[1]) \o ", " \o JoinIdents(Tail(names))

\* printed width of a field's names
RECURSIVE NamesWidth(_)
NamesWidth(names) ==
    IF names = <<>> THEN 0
    ELSE IF Len(names) = 1 THEN Len(names[1])
    ELSE Len(names[1]) + 2 + NamesWidth(Tail(names))

RECURSIVE Spaces(_)
Spaces(n) == IF n <= 0 THEN "" ELSE " " \o Spaces(n - 1)

RECURSIVE Newlines(_)
Newlines(n) == IF n <= 0 THEN "" ELSE "\n" \o Newlines(n - 1)

\* printer.nlimit: at most maxNewlines = 2 line breaks in a row
nlimit(n) == IF n > 2 THEN 2 ELSE n

\* printer.linebreak between two fields: a blank line is kept when the
\* second starts two or more lines below the first
BlankBefore(list, i) == i > 1 /\ list[i].Line - list[i - 1].Line >= 2

Max(S) == CHOOSE x \in S : \A y \in S : y <= x

\* names and type of a field as printed with blanks, and their width
Decl(f) ==
    IF Len(f.Names) = 0 THEN IdentStr(f.Type)
    ELSE JoinIdents(f.Names) \o " " \o IdentStr(f.Type)

DeclWidth(f) ==
    IF Len(f.Names) = 0 THEN Len(f.Type) ELSE NamesWidth(f.Names) + 1 + Len(f.Type)

\* a cell of text/tabwriter: a text and its width in characters
Cell(text, width) == [text |-> text, width |-> width]

\* printer.fieldList: the cells of the line of field i, after the indentation,
\* that a separator ends.  Among several fields the separator is a vtab: the
\* names of a named field are a cell, its type too when a comment follows,
\* and an embedded field with a comment is its type and an empty cell.  A
\* single field is written with blanks, and a tab before its comment.
Cells(list, i) ==
    IF Len(list) = 1
    THEN IF list[i].Comment = "" THEN <<>>
         ELSE <<Cell(Decl(list[i]), DeclWidth(list[i]))>>
    ELSE IF Len(list[i].Names) > 0
    THEN IF list[i].Comment = ""
         THEN <<Cell(JoinIdents(list[i].Names), NamesWidth(list[i].Names))>>
         ELSE <<Cell(JoinIdents(list[i].Names), NamesWidth(list[i].Names)),
                Cell(IdentStr(list[i].Type), Len(list[i].Type))>>
    ELSE IF list[i].Comment = "" THEN <<>>
         ELSE <<Cell(IdentStr(list[i].Type), Len(list[i].Type)), Cell("", 0)>>

\* the text of the line of field i after its last separator
LastCell(list, i) ==
    IF list[i].Comment # "" THEN list[i].Comment
    ELSE IF Len(list) = 1 THEN Decl(list[i])
    ELSE IdentStr(list[i].Type)

\* text/tabwriter: the lines of fields i and j lie in one block of column c
\* when every line from one to the other has a c-th cell and none is
\* preceded by a blank line
InColumn(list, c, i, j) ==
    LET lo == IF i < j THEN i ELSE j
        hi == IF i < j THEN j ELSE i
    IN  /\ \A k \in lo..hi : Len(Cells(list, k)) >= c
        /\ \A k \in (lo + 1)..hi : ~BlankBefore(list, k)

\* the widths of the cells of the block of column c that field i lies in
BlockWidths(list, c, i) ==
    {Cells(list, j)[c].width : j \in {k \in 1..Len(list) : InColumn(list, c, i, k)}}

\* text/tabwriter (minwidth 0, padding 1, DiscardEmptyColumns): the width of
\* column c at the line of field i is the widest cell of the block and one
\* more, and 0 when all cells of the block are empty
ColumnWidth(list, c, i) ==
    IF BlockWidths(list, c, i) \subseteq {0} THEN 0
    ELSE 1 + Max(BlockWidths(list, c, i))

\* fields i and j lie in one block of the first column (names, and the
\* types of embedded fields with comments)
SameBlock(list, i, j) == InColumn(list, 1, i, j)

\* width of the first column at field i
NameColumn(list, i) == ColumnWidth(list, 1, i)

\* fields i and j lie in one block of the second column (the types of named
\* fields with comments, and the empty cells of embedded fields with comments)
SameCommentBlock(list, i, j) == InColumn(list, 2, i, j)

\* width of the second column at the commented field i
TypeColumn(list, i) == ColumnWidth(list, 2, i)

\* the cells of the line of field i from the c-th on, each filled with
\* blanks to the width of its column
RECURSIVE PaddedCells(_, _, _)
PaddedCells(list, i, c) ==
    IF c > Len(Cells(list, i)) THEN ""
    ELSE Cells(list, i)[c].text
         \o Spaces(ColumnWidth(list, c, i) - Cells(list, i)[c].width)
         \o PaddedCells(list, i, c + 1)

\* one field of a struct printed on lines of its own
FieldLine(list, i) ==
    (IF BlankBefore(list, i) THEN "\n" ELSE "")
    \o "\t" \o PaddedCells(list, i, 1) \o LastCell(list, i) \o "\n"

RECURSIVE FieldLines(_, _)
FieldLines(list, i) ==
    IF i > Len(list) THEN "" ELSE FieldLine(list, i) \o FieldLines(list, i + 1)

\* printer.isOneLineFieldList: a single field without tag or comment whose
\* type, with a blank when the field has names, takes at most maxSize = 30
\* bytes
isOneLineFieldList(list) ==
    /\ Len(list) = 1
    /\ list[1].Comment = ""
    /\ (IF Len(list[1].Names) > 0 THEN 1 ELSE 0) + ByteLen(list[1].Type) <= 30

\* printer.print before the closing brace: after the comment of the last
\* field the printer stands on the line of the comment, and one of the empty
\* lines down to the brace is kept
BlankBeforeClosing(t) ==
    /\ Len(t.List) > 0
    /\ t.List[Len(t.List)].Comment # ""
    /\ t.Closing - t.List[Len(t.List)].Line >= 2

\* printer.fieldList for a struct
FormatStruct(t) ==
    LET srcIsOneLine == t.Opening = t.Closing
    IN  IF srcIsOneLine /\ Len(t.List) = 0 THEN "struct{}"
        ELSE IF srcIsOneLine /\ isOneLineFieldList(t.List)
        THEN "struct{ "
             \o (IF Len(t.List[1].Names) > 0
                 THEN JoinIdents(t.List[1].Names) \o " " ELSE "")
             \o IdentStr(t.List[1].Type) \o " }"
        ELSE "struct {\n" \o FieldLines(t.List, 1)
             \o (IF BlankBeforeClosing(t) THEN "\n" ELSE "") \o "}"

\* printer.parameters, the parameters from the i-th on: prevLine is the line
\* the one before ended on (the line of the opening bracket for the first),
\* indented tells whether a line was broken before.  [text, prevLine, indented]
RECURSIVE ParamsFrom(_, _, _, _)
ParamsFrom(list, i, prevLine, indented) ==
    IF i > Len(list)
    THEN [text |-> "", prevLine |-> prevLine, indented |-> indented]
    ELSE LET par == list[i]
             needsLinebreak == 0 < prevLine /\ prevLine < par.Line
             rest == ParamsFrom(list, i + 1, par.Line, indented \/ needsLinebreak)
         IN  [text |-> (IF i > 1 THEN "," ELSE "")
                       \o (IF needsLinebreak
                           THEN Newlines(nlimit(par.Line - prevLine)) \o "\t"
                           ELSE IF i > 1 THEN " " ELSE "")
                       \o (IF Len(par.Names) > 0
                           THEN JoinIdents(par.Names) \o " " ELSE "")
                       \o IdentStr(par.Type)
                       \o rest.text,
              prevLine |-> rest.prevLine,
              indented |-> rest.indented]

\* printer.parameters: a parameter or result list in its brackets; when the
\* closing bracket is on a later line than the last parameter, a comma and a
\* line break come before it
FormatParams(fields) ==
    LET r == ParamsFrom(fields.List, 1, fields.Opening, FALSE)
    IN  "(" \o r.text
        \o (IF Len(fields.List) > 0 /\ 0 < r.prevLine /\ r.prevLine < fields.Closing
            THEN "," \o Newlines(nlimit(fields.Closing - r.prevLine)) ELSE "")
        \o ")"

\* ast.FieldList.NumFields: the names of the fields, 1 for a field without
RECURSIVE NumFields(_)
NumFields(list) ==
    IF list = <<>> THEN 0
    ELSE (IF Len(list[1].Names) = 0 THEN 1 ELSE Len(list[1].Names)) + NumFields(Tail(list))

\* printer.signature after the keyword func
FormatFunc(t) ==
    "func" \o FormatParams(t.Params)
    \o (IF NumFields(t.Results.List) = 0 THEN ""
        ELSE IF NumFields(t.Results.List) = 1 /\ Len(t.Results.List[1].Names) = 0
        THEN " " \o IdentStr(t.Results.List[1].Type)
        ELSE " " \o FormatParams(t.Results))

\* func formatNode(fset, node) (string, error); printing a tree that was
\* parsed without error does not fail
formatNode(node) ==
    IF node.node = "StructType" THEN FormatStruct(node)
    ELSE IF node.node = "FuncType" THEN FormatFunc(node)
    ELSE node.Text

\* func simplifyType(typeNode ast.Expr) ast.Node
simplifyType(typeNode) ==
    IF typeNode.node # "StructType" THEN typeNode
    ELSE StructType(typeNode.Opening,
                    SelectSeq(typeNode.List,
                              LAMBDA field : Len(field.Names) > 0
                                             /\ IsExported(field.Names[1])),
                    typeNode.Closing)

\* func analyzeGenDecl(fset, d, exported): the specs from the i-th on
RECURSIVE analyzeGenDeclFrom(_, _, _)
analyzeGenDeclFrom(d, i, exported) ==
    IF i > Len(d.Specs) THEN exported
    ELSE LET spec == d.Specs[i]
         IN  IF spec.spec = "TypeSpec" /\ IsExported(spec.Name)
             THEN analyzeGenDeclFrom(d, i + 1,
                     Exported(MapSet(exported.Types, IdentStr(spec.Name),
                                     formatNode(simplifyType(spec.Type))),
                              exported.Functions))
             ELSE analyzeGenDeclFrom(d, i + 1, exported)

analyzeGenDecl(d, exported) == analyzeGenDeclFrom(d, 1, exported)

\* func analyzeFuncDecl(fset, d, exported)
analyzeFuncDecl(d, exported) ==
    IF ~IsExported(d.Name) THEN exported
    ELSE Exported(exported.Types,
                  MapSet(exported.Functions, IdentStr(d.Name), formatNode(d.Type)))

\* the declarations of one file, from the i-th on
RECURSIVE analyzeDecls(_, _, _)
analyzeDecls(decls, i, exported) ==
    IF i > Len(decls) THEN exported
    ELSE analyzeDecls(decls, i + 1,
            IF decls[i].decl = "GenDecl" THEN analyzeGenDecl(decls[i], exported)
            ELSE analyzeFuncDecl(decls[i], exported))

\* func analyzePackageFiles(fset, files, exported).  files is a Go map: the
\* order of the range over it is not fixed, order is the order taken.
RECURSIVE analyzePackageFiles(_, _, _)
analyzePackageFiles(files, order, exported) ==
    IF order = <<>> THEN exported
    ELSE analyzePackageFiles(files, Tail(order),
                             analyzeDecls(files[order[1]], 1, exported))

\* the orders a range over a map with key set S can take
Orders(S) ==
    {o \in [1..Cardinality(S) -> S] : \A i, j \in 1..Cardinality(S) : o[i] = o[j] => i = j}

(***************************************************************************)
(* The source directories the runs are made on: a Go map from file name to *)
(* the declarations of the file; all files belong to one package.  A file  *)
(* with a syntax error holds a BadDecl.                                    *)
(***************************************************************************)
BadDecl == [decl |-> "BadDecl"]

\* parser.ParseDir returns an error
ParseError(dir) ==
    \E f \in DOMAIN dir : \E i \in 1..Len(dir[f]) : dir[f][i].decl = "BadDecl"

\* a directory whose file does not parse
Unparseable == [f \in {"test.go"} |-> <<BadDecl>>]

idTest     == <<"T", "e", "s", "t">>
idOther    == <<"O", "t", "h", "e", "r">>
idExported == <<"E", "x", "p", "o", "r", "t", "e", "d">>
idhelper   == <<"h", "e", "l", "p", "e", "r">>
idName     == <<"N", "a", "m", "e">>
idname     == <<"n", "a", "m", "e">>
idage      == <<"a", "g", "e">>
idA        == <<"A">>
ida        == <<"a">>
idB        == <<"B">>
idb        == <<"b">>
idint      == <<"i", "n", "t">>
idstring   == <<"s", "t", "r", "i", "n", "g">>
iderror    == <<"e", "r", "r", "o", "r">>
idBase     == <<"B", "a", "s", "e">>
idEacute   == <<"U+00C9">>                  \* the letter E with acute accent

\* struct bodies: each field is <<names, type, comment>>
Bodies == {
    <<>>,
    << <<<<idname>>, idstring, "">> >>,
    << <<<<idName>>, idstring, "">> >>,
    << <<<<idName>>, idint, "">> >>,
    << <<<<idName>>, idstring, "// c">> >>,
    << <<<<idA>>, idint, "// d">>, <<<<idName>>, idstring, "// e">> >>,
    << <<<<idEacute>>, idint, "">> >>,
    << <<<<idName>>, idstring, "">>, <<<<idage>>, idint, "">> >>,
    << <<<<idA>>, idint, "">> >>,
    << <<<<idA, idb>>, idint, "">> >>,
    << <<<<ida>>, idint, "">> >>,
    << <<<<ida, idB>>, idint, "">> >>,
    << <<<<>>, idBase, "">> >>,
    << <<<<idName>>, idstring, "">>, <<<<idA>>, idint, "">> >>,
    << <<<<idName>>, idstring, "">>, <<<<idage>>, idint, "">>, <<<<idA>>, idint, "">> >> }

\* "type Test struct{...}" opening on line 2, written on one line or with
\* one field per line
TestDecl(body, oneLine) ==
    LET n == Len(body)
        list == [i \in 1..n |->
                    Field(body[i][1], body[i][2], IF oneLine THEN 2 ELSE 2 + i, body[i][3])]
    IN  GenDecl(<<TypeSpec(idTest, StructType(2, list, IF oneLine THEN 2 ELSE 3 + n))>>)

\* the ways "type Test struct" is written; a line comment ends its line
TestDecls ==
    {TestDecl(body, oneLine) : body \in Bodies, oneLine \in BOOLEAN}
    \ {TestDecl(body, TRUE) : body \in {b \in Bodies : \E i \in 1..Len(b) : b[i][3] # ""}}

\* a parameter, and a signature, written on the one line a function starts on
Param(name, type) == Field(<<name>>, type, 4, "")

Signature(params, results) ==
    FuncType(FieldList(4, params, 4), results)

\* func Exported() {}, func Exported(a int) {}, func Exported(a int, b int) {}
FuncExported(n) ==
    FuncDecl("", idExported,
             Signature(SubSeq(<<Param(ida, idint), Param(idb, idint)>>, 1, n), NoResults))

\* func Exported(a int,
\*     b int) {}
FuncExportedBroken ==
    FuncDecl("", idExported,
             FuncType(FieldList(4, <<Param(ida, idint), Field(<<idb>>, idint, 5, "")>>, 5),
                      NoResults))

\* func helper() {}
FuncHelper == FuncDecl("", idhelper, Signature(<<>>, NoResults))

\* func (t Test) Exported() {}
MethodTestExported == FuncDecl("Test", idExported, Signature(<<>>, NoResults))

\* other.go: type Other int; func (o Other) Exported(a int) error {}
OtherFile ==
    <<GenDecl(<<TypeSpec(idOther, OtherType("int"))>>),
      FuncDecl("Other", idExported,
               Signature(<<Param(ida, idint)>>,
                         FieldList(0, <<Field(<<>>, iderror, 4, "")>>, 0)))>>

\* the contents test.go takes
TestFiles ==
    {<<>>} \cup {<<d>> : d \in TestDecls}
    \cup {<<f>> : f \in {FuncExported(0), FuncExported(1), FuncExported(2),
                           FuncExportedBroken, FuncHelper}}
    \cup {<<TestDecl(<<>>, TRUE), f>> :
             f \in {FuncExported(0), FuncHelper, MethodTestExported}}
    \cup {<<TestDecl(<< <<<<idage>>, idint, "">> >>, TRUE), FuncExported(0)>>}

\* the directories: empty, test.go alone, or test.go next to other.go
Sources ==
    {EmptyMap}
    \cup {[f \in {"test.go"} |-> decls] : decls \in TestFiles}
    \cup {[f \in {"test.go", "other.go"} |->
              IF f = "test.go" THEN decls ELSE OtherFile] :
          decls \in {<<>>, <<TestDecl(<<>>, TRUE), MethodTestExported>>,
                     <<FuncExported(0)>>}}

\* func analyzePackage(dir string) (Exported, error), for a directory that
\* parses, with the order the range over the files takes.  The directories
\* modelled hold one package, so the range over pkgs has one step.
analyzePackage(dir, order) ==
    analyzePackageFiles(dir, order, Exported(EmptyMap, EmptyMap))

(***************************************************************************)
(* The state location.  gob writes a State and reads it back with the same *)
(* version string and the same two maps, so a decodable file is modelled   *)
(* by the State it holds.                                                  *)
(***************************************************************************)
Absent == [exists |-> FALSE]                  \* no file
Corrupt == [exists |-> TRUE, gob |-> FALSE]   \* a file gob cannot decode
Stored(state) == [exists |-> TRUE, gob |-> TRUE, state |-> state]

\* a baseline that already counts one feature
BaselineMinorOne == State(<<"0", ".", "1", ".", "0">>, Exported(EmptyMap, EmptyMap))

\* what loadState returns when the file does not exist
Baseline == State(<<"0", ".", "0", ".", "0">>, Exported(EmptyMap, EmptyMap))

\* a State whose version was written by hand and is no version
EditedStates == {State(<<"v", "1">>, Exported(EmptyMap, EmptyMap))}

\* the State values of a long history of runs: a component of the version
\* is at the largest int
AgedStates ==
    {State(VersionString(v), Exported(EmptyMap, EmptyMap)) :
        v \in {Version(IntOf(0), IntOf(0), MaxInt), Version(IntOf(0), MaxInt, IntOf(0))}}

\* a version component a process may start from
Startable(x) == x = MaxInt \/ (~x.neg /\ IntLess(x, IntOf(MaxVer)))

StartableVersion(v) == Startable(v.Major) /\ Startable(v.Minor) /\ Startable(v.Patch)

(***************************************************************************)
(* One process: main() and run().  The environment edits the source and    *)
(* the state location between processes.                                   *)
(***************************************************************************)
\* no process is running, and the one that ran before is gone
Quiet == pc = "idle"

\* the locals and the output of the process that ran before are gone
Fresh ==
    /\ previousState' = None
    /\ currentExported' = None
    /\ newVersion' = None
    /\ fromSrc' = <<>>
    /\ stdout' = <<>>
    /\ stderr' = <<>>
    /\ exitCode' = -1

\* the process ends without a version: run returns an error (main:
\* slog.Error, os.Exit(1)), or flag.Parse exits
Fail(code, err) ==
    /\ pc' = "done"
    /\ exitCode' = code
    /\ stderr' = Append(stderr, err)
    /\ UNCHANGED <<src, lastSrc, fromSrc, stateFile, previousState,
                   currentExported, newVersion, stdout, arg, ret>>

\* loadState, saveState: slog.Warn("failed to close state file", ...) in the
\* deferred function
WarnClose == "warn: failed to close state file"

\* what the deferred file.Close() logs: nothing, or the warning when it fails
CloseLogs == {<<>>, <<WarnClose>>}

Init ==
    /\ src \in Sources
    /\ lastSrc = <<>>
    /\ fromSrc = <<>>
    /\ stateFile = Absent
    /\ pc = "idle"
    /\ previousState = None
    /\ currentExported = None
    /\ newVersion = None
    /\ stdout = <<>>
    /\ stderr = <<>>
    /\ exitCode = -1
    /\ arg = None
    /\ ret = None

\* the process has ended (main returned, or os.Exit)
Exit ==
    /\ pc = "done"
    /\ pc' = "idle"
    /\ Fresh
    /\ UNCHANGED <<src, lastSrc, stateFile, arg, ret>>

\* the source directory is rewritten
Edit ==
    /\ Quiet
    /\ \E s \in (Sources \cup {Unparseable}) \ {src} : src' = s
    /\ pc' = "idle"
    /\ Fresh
    /\ UNCHANGED <<lastSrc, stateFile, arg, ret>>

\* the state file is removed
DeleteState ==
    /\ Quiet
    /\ stateFile # Absent
    /\ stateFile' = Absent
    /\ lastSrc' = <<>>
    /\ pc' = "idle"
    /\ Fresh
    /\ UNCHANGED <<src, arg, ret>>

\* the state file is overwritten with bytes that are no gob stream
ClobberState ==
    /\ Quiet
    /\ stateFile # Corrupt
    /\ stateFile' = Corrupt
    /\ lastSrc' = <<>>
    /\ pc' = "idle"
    /\ Fresh
    /\ UNCHANGED <<src, arg, ret>>

\* the state file is put in place from elsewhere: a gob of a State kept
\* from a long history of runs, or of one written by hand
InstallState ==
    /\ Quiet
    /\ \E state \in AgedStates \cup EditedStates :
          /\ stateFile # Stored(state)
          /\ stateFile' = Stored(state)
    /\ lastSrc' = <<>>
    /\ pc' = "idle"
    /\ Fresh
    /\ UNCHANGED <<src, arg, ret>>

\* a process is started; version components are kept below MaxVer, unless
\* at the largest int
Start ==
    /\ Quiet
    /\ (stateFile.exists /\ stateFile.gob) =>
          StartableVersion(parseVersion(stateFile.state.Version))
    /\ pc' = "parseFlags"
    /\ Fresh
    /\ UNCHANGED <<src, lastSrc, stateFile, arg, ret>>

\* func parseFlags(); flag.Parse (flag.ExitOnError) prints the usage and
\* exits: with status 0 when the command line asks for help (-h, -help),
\* with status 2 when it is wrong
ParseFlags ==
    /\ pc = "parseFlags"
    /\ \/ /\ pc' = "loadState"
          /\ UNCHANGED <<src, lastSrc, fromSrc, stateFile, previousState,
                         currentExported, newVersion, stdout, stderr, exitCode, arg, ret>>
       \/ Fail(0, "flag: help requested")
       \/ Fail(2, "flag: usage")

\* func loadState(stateFile string) (State, error), and run's check of it
LoadState ==
    /\ pc = "loadState"
    /\ \/ /\ stateFile = Absent
          /\ previousState' = Baseline
          /\ pc' = "analyzePackage"
          /\ UNCHANGED <<src, lastSrc, fromSrc, stateFile, currentExported,
                         newVersion, stdout, stderr, exitCode, arg, ret>>
       \/ /\ stateFile.exists /\ stateFile.gob
          /\ previousState' = stateFile.state
          /\ pc' = "analyzePackage"
          /\ \E log \in CloseLogs : stderr' = stderr \o log
          /\ UNCHANGED <<src, lastSrc, fromSrc, stateFile, currentExported,
                         newVersion, stdout, exitCode, arg, ret>>
       \/ /\ stateFile.exists /\ ~stateFile.gob
          /\ pc' = "done"
          /\ exitCode' = 1
          /\ \E log \in CloseLogs :
                stderr' = stderr \o log \o <<"loading state: decoding state file">>
          /\ UNCHANGED <<src, lastSrc, fromSrc, stateFile, previousState,
                         currentExported, newVersion, stdout, arg, ret>>
       \/ /\ stateFile.exists
          /\ Fail(1, "loading state: opening state file")

\* func analyzePackage(dir string) (Exported, error), and run's check of it
AnalyzePackage ==
    /\ pc = "analyzePackage"
    /\ \/ /\ ParseError(src)
          /\ Fail(1, "analyzing package: parsing directory")
       \/ /\ ~ParseError(src)
          /\ \E order \in Orders(DOMAIN src) :
                currentExported' = analyzePackage(src, order)
          /\ pc' = "calculateVersion"
          /\ UNCHANGED <<src, lastSrc, fromSrc, stateFile, previousState,
                         newVersion, stdout, stderr, exitCode, arg, ret>>

\* run: newVersion := calculateVersion(previousState, currentExported)
CalculateVersion ==
    /\ pc = "calculateVersion"
    /\ newVersion' = calculateVersion(previousState, currentExported)
    /\ stderr' = stderr \o parseVersionLog(previousState.Version)
    /\ pc' = "saveState"
    /\ UNCHANGED <<src, lastSrc, fromSrc, stateFile, previousState,
                   currentExported, stdout, exitCode, arg, ret>>

\* func saveState(stateFile string, state State) error, and run's check.
\* os.Create truncates the file before anything is encoded into it.  When
\* the deferred file.Close() fails, saveState logs it and returns what it
\* would have returned; what was written may then not have reached the
\* file, which holds the new state or something gob cannot decode.
SaveState ==
    /\ pc = "saveState"
    /\ \/ /\ stateFile' = Stored(State(VersionString(newVersion), currentExported))
          /\ lastSrc' = <<src>>
          /\ fromSrc' = lastSrc
          /\ pc' = "print"
          /\ \E log \in CloseLogs : stderr' = stderr \o log
          /\ UNCHANGED <<src, previousState, currentExported, newVersion,
                         stdout, exitCode, arg, ret>>
       \/ /\ stateFile' = Corrupt     \* Encode returns nil, Close fails
          /\ lastSrc' = <<>>
          /\ fromSrc' = lastSrc
          /\ pc' = "print"
          /\ stderr' = stderr \o <<WarnClose>>
          /\ UNCHANGED <<src, previousState, currentExported, newVersion,
                         stdout, exitCode, arg, ret>>
       \/ Fail(1, "saving state: creating state file")
       \/ /\ stateFile' = Corrupt     \* the file is cut, then Encode fails
          /\ lastSrc' = <<>>
          /\ pc' = "done"
          /\ exitCode' = 1
          /\ \E log \in CloseLogs :
                stderr' = stderr \o log \o <<"saving state: encoding state">>
          /\ UNCHANGED <<src, fromSrc, previousState, currentExported,
                         newVersion, stdout, arg, ret>>

\* run: fmt.Println(newVersion.String()); return nil
Println ==
    /\ pc = "print"
    /\ stdout' = Append(stdout, VersionString(newVersion))
    /\ exitCode' = 0
    /\ pc' = "done"
    /\ UNCHANGED <<src, lastSrc, fromSrc, stateFile, previousState,
                   currentExported, newVersion, stderr, arg, ret>>

Next ==
    \/ Exit
    \/ Edit
    \/ DeleteState
    \/ ClobberState
    \/ InstallState
    \/ Start
    \/ ParseFlags
    \/ LoadState
    \/ AnalyzePackage
    \/ CalculateVersion
    \/ SaveState
    \/ Println

Spec == Init /\ [][Next]_vars

(***************************************************************************)
(* calculateVersion on its own: every pair of snapshots over two type      *)
(* names and one function name, every previous version with components up  *)
(* to MaxVer or at the largest int.                                        *)
(***************************************************************************)
\* the maps from some of the names to the signatures
Maps(names, sigs) == UNION {[D -> sigs] : D \in SUBSET names}

CalcSnapshots ==
    {Exported(types, functions) :
        types \in Maps({"Test", "Other"}, {"struct{}", "struct{ Name string }"}),
        functions \in Maps({"Exported"}, {"func()", "func(a int)"})}

CalcInts == {IntOf(n) : n \in 0..MaxVer} \cup {MaxInt}

CalcVersions ==
    {Version(major, minor, patch) :
        major \in CalcInts, minor \in CalcInts, patch \in CalcInts}

InitCalc ==
    /\ arg \in [version : CalcVersions, previous : CalcSnapshots, current : CalcSnapshots]
    /\ ret = None
    /\ pc = "call"
    /\ src = EmptyMap
    /\ lastSrc = <<>>
    /\ fromSrc = <<>>
    /\ stateFile = Absent
    /\ previousState = None
    /\ currentExported = None
    /\ newVersion = None
    /\ stdout = <<>>
    /\ stderr = <<>>
    /\ exitCode = -1

\* calculateVersion(State{version.String(), previous}, current)
ApplyCalculateVersion ==
    /\ pc = "call"
    /\ ret' = calculateVersion(State(VersionString(arg.version), arg.previous), arg.current)
    /\ stderr' = stderr \o parseVersionLog(VersionString(arg.version))
    /\ pc' = "return"
    /\ UNCHANGED <<src, lastSrc, fromSrc, stateFile, previousState,
                   currentExported, newVersion, stdout, exitCode, arg>>

NextCalc == ApplyCalculateVersion

SpecCalc == InitCalc /\ [][NextCalc]_vars

\* the names of m1 that m2 lacks or maps to another signature
RemovedOrChanged(m1, m2) ==
    {name \in DOMAIN m1 : name \notin DOMAIN m2 \/ m2[name] # m1[name]}

\* the names of m2 that m1 lacks
Added(m1, m2) == DOMAIN m2 \ DOMAIN m1

Breaking(previous, current) ==
    RemovedOrChanged(previous.Types, current.Types)
        \cup RemovedOrChanged(previous.Functions, current.Functions) # {}

Additive(previous, current) ==
    /\ ~Breaking(previous, current)
    /\ Added(previous.Types, current.Types)
          \cup Added(previous.Functions, current.Functions) # {}

\* C1: calculateVersion returns (Major + 1, 0, 0) exactly when a name of the
\* previous snapshot is missing from the current one or has another
\* signature there, whatever names the current snapshot adds.  (+ is the
\* sum of Go's int.)
C1_BreakingIffRemovedOrChanged ==
    pc = "return" =>
        (ret = Version(AddOne(arg.version.Major), IntOf(0), IntOf(0))
            <=> Breaking(arg.previous, arg.current))

\* a pair that removes one name and adds another got the major bump
C1_Witness ==
    /\ pc = "return"
    /\ RemovedOrChanged(arg.previous.Types, arg.current.Types) # {}
    /\ Added(arg.previous.Functions, arg.current.Functions) # {}
    /\ arg.version = SmallVersion(1, 2, 1)
    /\ ret = SmallVersion(2, 0, 0)

\* C2: calculateVersion returns (Major, Minor + 1, 0) exactly when nothing is
\* removed or changed and the current snapshot has a name the previous one
\* lacks.
C2_AdditiveIffOnlyNewNames ==
    pc = "return" =>
        (ret = Version(arg.version.Major, AddOne(arg.version.Minor), IntOf(0))
            <=> Additive(arg.previous, arg.current))

\* a pair that keeps a type as it is and adds a function got the minor bump
C2_Witness ==
    /\ pc = "return"
    /\ arg.previous.Types # EmptyMap
    /\ arg.previous.Types = arg.current.Types
    /\ arg.previous.Functions = EmptyMap
    /\ arg.current.Functions # EmptyMap
    /\ arg.version = SmallVersion(1, 2, 1)
    /\ ret = SmallVersion(1, 3, 0)

(***************************************************************************)
(* parseVersion on its own: every string of at most MaxLen characters of   *)
(* ParseAlphabet, and versions around the largest int.                     *)
(***************************************************************************)
ParseAlphabet == {"0", "1", ".", "-", "x", "\t"}

\* 9223372036854775807 and 9223372036854775808 as a component
LongInputs ==
    {NatToStr(n) \o <<".", "0", ".", "0">> : n \in {MaxInt.mag, MinInt.mag}}
    \cup {<<"0", ".", "0", ".">> \o NatToStr(n) : n \in {MaxInt.mag, MinInt.mag}}
    \cup {<<"-">> \o NatToStr(MinInt.mag) \o <<".", "0", ".", "0">>}

ParseInputs == UNION {[1..n -> ParseAlphabet] : n \in 0..MaxLen} \cup LongInputs

InitParse ==
    /\ arg \in ParseInputs
    /\ ret = None
    /\ pc = "call"
    /\ src = EmptyMap
    /\ lastSrc = <<>>
    /\ fromSrc = <<>>
    /\ stateFile = Absent
    /\ previousState = None
    /\ currentExported = None
    /\ newVersion = None
    /\ stdout = <<>>
    /\ stderr = <<>>
    /\ exitCode = -1

ApplyParseVersion ==
    /\ pc = "call"
    /\ ret' = parseVersion(arg)
    /\ stderr' = stderr \o parseVersionLog(arg)
    /\ pc' = "return"
    /\ UNCHANGED <<src, lastSrc, fromSrc, stateFile, previousState,
                   currentExported, newVersion, stdout, exitCode, arg>>

NextParse == ApplyParseVersion

SpecParse == InitParse /\ [][NextParse]_vars

\* s is three non-empty runs of digits separated by two dots, nothing else
WellFormedVersion(s) ==
    \E i, j \in 1..Len(s) :
        /\ 1 < i /\ i + 1 < j /\ j < Len(s)
        /\ s[i] = "." /\ s[j] = "."
        /\ \A k \in (1..Len(s)) \ {i, j} : IsDigit(s[k])

\* C10: parseVersion returns (0, 0, 0) for every string that is not exactly
\* three dot-separated non-negative integers.  (Fails: Sscanf takes a signed
\* number and ignores what follows the third one.)
C10_MalformedGivesBaseline ==
    (pc = "return" /\ ~WellFormedVersion(arg)) => ret = SmallVersion(0, 0, 0)

(***************************************************************************)
(* Claims about whole runs, under Spec                                     *)
(***************************************************************************)
\* the process ran to the end of run() and printed
Succeeded == pc = "done" /\ exitCode = 0 /\ stdout # <<>>

\* the version the process read
ReadVersion == parseVersion(previousState.Version)

\* the three results of calculateVersion (+ is the sum of Go's int)
PatchBump(v) == Version(v.Major, v.Minor, AddOne(v.Patch))
MinorBump(v) == Version(v.Major, AddOne(v.Minor), IntOf(0))
MajorBump(v) == Version(AddOne(v.Major), IntOf(0), IntOf(0))

\* the source has an exported top-level type or function
HasExportedDecl(dir) ==
    \E f \in DOMAIN dir : \E i \in 1..Len(dir[f]) :
        LET d == dir[f][i]
        IN  \/ d.decl = "FuncDecl" /\ IsExported(d.Name)
            \/ /\ d.decl = "GenDecl"
               /\ \E k \in 1..Len(d.Specs) :
                     d.Specs[k].spec = "TypeSpec" /\ IsExported(d.Specs[k].Name)

\* C3: the version a successful run persists and prints is strictly greater
\* than the well-formed version it read (0.0.0 when the state is missing).
\* (Fails: Patch + 1 and Minor + 1 are sums of int; from the largest int
\* they give the smallest, so a run that read 0.0.9223372036854775807
\* prints 0.0.-9223372036854775808.)
C3_VersionStrictlyIncreases ==
    (Succeeded /\ WellFormedVersion(previousState.Version)) =>
        /\ Len(stdout) = 1
        /\ stateFile = Stored(State(stdout[1], currentExported))
        /\ VersionLess(ReadVersion, parseVersion(stdout[1]))

\* C4: a successful run on the source the state file was built from advances
\* Patch by one and leaves Major and Minor alone.  (Fails when two files
\* declare a function and a method of one name: the snapshot then depends
\* on the order analyzePackageFiles takes, which differs between runs.)
C4_UnchangedSourceBumpsPatch ==
    (Succeeded /\ fromSrc = <<src>>) => newVersion = PatchBump(ReadVersion)

\* C5: with no state file, loadState returns version 0.0.0 with two empty
\* maps and no error, and the run prints 0.0.1 for a source without exported
\* declarations and 0.1.0 for one with an exported declaration.
C5_MissingStateIsBaseline ==
    /\ [][(pc = "loadState" /\ ~stateFile.exists) =>
            /\ pc' = "analyzePackage"
            /\ previousState' = State(<<"0", ".", "0", ".", "0">>,
                                      Exported(EmptyMap, EmptyMap))]_vars
    /\ []((Succeeded /\ previousState = State(<<"0", ".", "0", ".", "0">>,
                                              Exported(EmptyMap, EmptyMap))) =>
            stdout = <<IF HasExportedDecl(src)
                       THEN <<"0", ".", "1", ".", "0">>
                       ELSE <<"0", ".", "0", ".", "1">>>>)

\* a first run on a source with an exported declaration printed 0.1.0
C5_Witness ==
    /\ Succeeded
    /\ fromSrc = <<>>
    /\ previousState.Version = <<"0", ".", "0", ".", "0">>
    /\ HasExportedDecl(src)
    /\ stdout = << <<"0", ".", "1", ".", "0">> >>

\* the records of a log that are no warnings: the error main reports, or
\* what flag.Parse writes
Errors(log) == SelectSeq(log, LAMBDA r : r \notin {WarnClose, WarnParse})

\* C6: a version line is on standard output only when the new state has been
\* saved and the process is past its last failure point; a process that
\* ended with a failure has status 1 or 2 and printed nothing.  (The process
\* that was asked for the usage ends with status 0 and no version line; it
\* is no failure.)  (Fails: saveState only logs a failure of file.Close();
\* the version is then printed although what was encoded may not have
\* reached the file.)
C6_PrintOnlyAfterSave ==
    /\ stdout # <<>> =>
          /\ pc = "done" /\ exitCode = 0
          /\ stateFile = Stored(State(stdout[1], currentExported))
    /\ (pc = "done" /\ exitCode # 0) => (exitCode \in {1, 2} /\ stdout = <<>>)
    /\ (pc = "done" /\ Errors(stderr) \notin {<<>>, <<"flag: help requested">>}) =>
          exitCode \in {1, 2}
    /\ (pc = "done" /\ exitCode = 0 /\ stdout = <<>>) =>
          Errors(stderr) = <<"flag: help requested">>
    /\ (pc = "done") => exitCode >= 0

(***************************************************************************)
(* Relations between the source the state file was built from and the      *)
(* source of the current run.  They are stated on the parse trees, without *)
(* the program's own normalisation.                                        *)
(***************************************************************************)
RemoveAt(s, i) == SubSeq(s, 1, i - 1) \o SubSeq(s, i + 1, Len(s))

IsStruct(t) == t.node = "StructType"

\* a field without its position
Member(f) == [Names |-> f.Names, Type |-> f.Type, Comment |-> f.Comment]

\* a field is a public member declaration in full: one exported name, or an
\* embedded exported type
PublicField(f) ==
    \/ Len(f.Names) = 1 /\ IsExported(f.Names[1])
    \/ Len(f.Names) = 0 /\ IsExported(f.Type)

\* the field with its non-exported names taken out
PublicNames(f) ==
    [f EXCEPT !.Names = SelectSeq(@, LAMBDA n : IsExported(n))]

\* the field declares no public member
PrivateField(f) ==
    IF Len(f.Names) = 0 THEN ~IsExported(f.Type)
    ELSE \A i \in 1..Len(f.Names) : ~IsExported(f.Names[i])

\* a type without its non-exported members and without positions; whether
\* the braces share a line is kept
PublicType(t) ==
    IF ~IsStruct(t) THEN t
    ELSE LET kept == SelectSeq(t.List, LAMBDA f : ~PrivateField(f))
         IN  [node |-> "StructType",
              oneLine |-> t.Opening = t.Closing,
              List |-> [i \in 1..Len(kept) |-> Member(PublicNames(kept[i]))]]

\* a declaration without its non-exported members
PublicDecl(d) ==
    IF d.decl = "GenDecl"
    THEN [d EXCEPT !.Specs =
            [i \in 1..Len(@) |->
                IF @[i].spec = "TypeSpec"
                THEN [@[i] EXCEPT !.Type = PublicType(@)]
                ELSE @[i]]]
    ELSE d

\* the declarations of a file without the non-exported functions and members
PublicDecls(decls) ==
    LET kept == SelectSeq(decls, LAMBDA d : ~(d.decl = "FuncDecl" /\ ~IsExported(d.Name)))
    IN  [i \in 1..Len(kept) |-> PublicDecl(kept[i])]

\* d and s differ, and only in non-exported struct members and non-exported
\* top-level functions
OnlyPrivateDiffers(d, s) ==
    /\ d # s
    /\ DOMAIN d = DOMAIN s
    /\ \A f \in DOMAIN d : PublicDecls(d[f]) = PublicDecls(s[f])

\* a type without positions and comments
FieldsContent(list) ==
    [i \in 1..Len(list) |-> [Names |-> list[i].Names, Type |-> list[i].Type]]

TypeContent(t) ==
    IF IsStruct(t) THEN [node |-> "StructType", List |-> FieldsContent(t.List)]
    ELSE IF t.node = "FuncType"
    THEN [node |-> "FuncType",
          Params |-> FieldsContent(t.Params.List),
          Results |-> FieldsContent(t.Results.List)]
    ELSE t

DeclContent(d) ==
    IF d.decl = "GenDecl"
    THEN [d EXCEPT !.Specs =
            [i \in 1..Len(@) |->
                IF @[i].spec = "TypeSpec"
                THEN [@[i] EXCEPT !.Type = TypeContent(@)]
                ELSE @[i]]]
    ELSE [d EXCEPT !.Type = TypeContent(@)]

\* d and s differ, and only in line breaks and comments
OnlyLayoutDiffers(d, s) ==
    /\ d # s
    /\ DOMAIN d = DOMAIN s
    /\ \A f \in DOMAIN d :
          /\ Len(d[f]) = Len(s[f])
          /\ \A i \in 1..Len(d[f]) : DeclContent(d[f][i]) = DeclContent(s[f][i])

\* the declaration of one exported struct type
IsStructDecl(d) ==
    /\ d.decl = "GenDecl"
    /\ Len(d.Specs) = 1
    /\ d.Specs[1].spec = "TypeSpec"
    /\ IsExported(d.Specs[1].Name)
    /\ IsStruct(d.Specs[1].Type)

Members(d) ==
    LET list == d.Specs[1].Type.List
    IN  [i \in 1..Len(list) |-> Member(list[i])]

\* the members ms are the members md and one more public member, which is
\* field i of ms or a name of field i
GainsAt(md, ms, i) ==
    \/ PublicField(ms[i]) /\ RemoveAt(ms, i) = md
    \/ /\ Len(ms[i].Names) >= 2
       /\ \E j \in 1..Len(ms[i].Names) :
             /\ IsExported(ms[i].Names[j])
             /\ [ms EXCEPT ![i].Names = RemoveAt(@, j)] = md

\* s is d with one more public member in the exported struct declared by
\* declaration k of file f, written as before; holder: the new member's
\* field declaration starts with an exported name
GainsPublicMemberAt(d, s, f, k, holder) ==
    /\ DOMAIN d = DOMAIN s
    /\ f \in DOMAIN s
    /\ \A g \in DOMAIN s \ {f} : d[g] = s[g]
    /\ Len(d[f]) = Len(s[f])
    /\ k \in 1..Len(s[f])
    /\ \A i \in (1..Len(s[f])) \ {k} : d[f][i] = s[f][i]
    /\ IsStructDecl(d[f][k]) /\ IsStructDecl(s[f][k])
    /\ d[f][k].Specs[1].Name = s[f][k].Specs[1].Name
    /\ (d[f][k].Specs[1].Type.Opening = d[f][k].Specs[1].Type.Closing)
          = (s[f][k].Specs[1].Type.Opening = s[f][k].Specs[1].Type.Closing)
    /\ \E i \in 1..Len(Members(s[f][k])) :
          /\ GainsAt(Members(d[f][k]), Members(s[f][k]), i)
          /\ holder =>
                LET names == Members(s[f][k])[i].Names
                IN  Len(names) > 0 /\ IsExported(names[1])

GainsPublicMember(d, s, holder) ==
    \E f \in DOMAIN s : \E k \in 1..Len(s[f]) : GainsPublicMemberAt(d, s, f, k, holder)

\* C7: a run after a change to non-exported struct members or non-exported
\* functions only finds the snapshot it read and advances Patch only.
\* (Fails: simplifyType looks at the first name of a field declaration only,
\* and the printer leaves a blank line where a dropped field stood.)
C7_PrivateChangeIsNoChange ==
    (Succeeded /\ fromSrc # <<>> /\ OnlyPrivateDiffers(fromSrc[1], src)) =>
        /\ currentExported = previousState.Exported
        /\ newVersion = PatchBump(ReadVersion)

\* C8 as stated: a run after an exported struct gained a public member, and
\* nothing else changed, advances Minor.
C8_PublicMemberIsAdditive ==
    (Succeeded /\ fromSrc # <<>> /\ GainsPublicMember(fromSrc[1], src, FALSE)) =>
        newVersion = MinorBump(ReadVersion)

\* C8 amended: a run after an exported struct gained a public member, and
\* nothing else changed, never advances Minor; when the field declaration
\* holding the new member starts with an exported name the signature of the
\* type changes and the run advances Major.
C8_PublicMemberIsBreaking ==
    (Succeeded /\ fromSrc # <<>>) =>
        /\ GainsPublicMember(fromSrc[1], src, FALSE) =>
              newVersion # MinorBump(ReadVersion)
        /\ GainsPublicMember(fromSrc[1], src, TRUE) =>
              /\ RemovedOrChanged(previousState.Exported.Types,
                                  currentExported.Types) # {}
              /\ newVersion = MajorBump(ReadVersion)

\* struct{} became struct{Name string} and 0.1.0 became 1.0.0
C8_Witness ==
    /\ Succeeded
    /\ fromSrc # <<>>
    /\ GainsPublicMember(fromSrc[1], src, TRUE)
    /\ previousState.Version = <<"0", ".", "1", ".", "0">>
    /\ previousState.Exported.Types = [n \in {"Test"} |-> "struct{}"]
    /\ currentExported.Types = [n \in {"Test"} |-> "struct{ Name string }"]
    /\ newVersion = SmallVersion(1, 0, 0)

\* C9: a run after a change of line breaks and comments only finds the
\* snapshot it read and advances Patch only.  (Fails: the printed form of a
\* struct follows the lines its braces and fields are on, and includes the
\* comments of its fields.)
C9_ReformatIsNoChange ==
    (Succeeded /\ fromSrc # <<>> /\ OnlyLayoutDiffers(fromSrc[1], src)) =>
        /\ currentExported = previousState.Exported
        /\ newVersion = PatchBump(ReadVersion)

(***************************************************************************)
(* Claims about failures of a run, under Spec                              *)
(***************************************************************************)
\* the process is about to read a state file gob cannot decode
ReadsUndecodable == pc = "loadState" /\ stateFile.exists /\ ~stateFile.gob

\* C11: a run that finds a state file it cannot decode takes it for
\* corrupt, goes on with the baseline (version 0.0.0, empty snapshot) and
\* does not fail.  (Fails: loadState returns the decoding error, run returns
\* it as "loading state: ..." and the process ends with status 1, no version
\* printed.)
C11_UndecodableStateIsBaseline ==
    [][ReadsUndecodable =>
          /\ pc' = "analyzePackage"
          /\ previousState' = Baseline]_vars

\* C12: a run that ends with a fatal error (status 1) leaves at the state
\* location what it found there.  (Fails: saveState opens the file with
\* os.Create, which cuts it to length 0, and only then encodes; when Encode
\* fails the state that was there is gone and a cut file is left.)
C12_FatalRunLeavesStateAlone ==
    [][(pc # "done" /\ pc' = "done" /\ exitCode' = 1) =>
          stateFile' = stateFile]_vars

\* the snapshot analyzePackage returned is held by the process
Analyzed == pc \in {"calculateVersion", "saveState", "print"} \/ Succeeded

\* C13: the snapshot built from the files of a directory is the same for
\* every order the files are taken in.  (Fails: Functions is keyed by the
\* name of the function or method alone, so of a function Exported in
\* test.go and a method Exported in other.go the one processed last stays.)
C13_SnapshotIndependentOfOrder ==
    Analyzed => \A order \in Orders(DOMAIN src) :
                    currentExported = analyzePackage(src, order)

====
